---- MODULE Spec2Model ----
(***************************************************************************)
(* Model of polkadot/consensus/src/lib.rs: the shared statement table      *)
(* (SharedTable / SharedTableInner), the table context (TableContext),     *)
(* statement signing (sign_table_statement) and the StatementProducer      *)
(* future.                                                                 *)
(*                                                                         *)
(* Four specifications share the module:                                   *)
(*   Spec         threads calling the SharedTable entry points             *)
(*   ProducerSpec one StatementProducer being polled while its fetches     *)
(*                resolve                                                  *)
(*   SignSpec     sign_table_statement applied to one statement under two  *)
(*                parent hashes                                            *)
(*   SetupSpec    ProposerFactory::init on a duty roster                   *)
(***************************************************************************)
EXTENDS Integers, Sequences, FiniteSets, TLC

VARIABLES
    \* ---- TableContext (immutable after SharedTable::new) ----
    groups,                 \* HashMap<ParaId, GroupInfo>
    \* ---- SharedTableInner, behind the mutex ----
    table,                  \* Table: the candidate receipts it stores
    proposed_digest,        \* Option<Hash>
    checked_validity,       \* HashSet<Hash>
    checked_availability,   \* HashSet<Hash>
    \* ---- the parking_lot::Mutex around SharedTableInner ----
    lock,                   \* NoThread, or the thread holding the guard
    \* ---- per thread: position in the entry point and its locals ----
    pc,
    local_proposed,         \* sign_and_import: `let proposed_digest`
    signed_statement,       \* sign_and_import: `let signed_statement`
    summaries,              \* what Table::import_statement returned, per statement of the call
    producers,              \* the StatementProducers built by the call
    ret,                    \* value returned by proposed_hash
    \* ---- the TableRouter: how often each fetch was requested ----
    fetch_block_calls,
    fetch_extrinsic_calls,
    was_proposed,           \* history: digests ever written to proposed_digest
    \* ---- ProducerSpec: one StatementProducer and its two fetch futures ----
    producer,               \* the StatementProducer being polled
    fetch_future,           \* state of the router's futures: block, extrinsic
    poll_result,            \* what the last poll returned
    polls,                  \* number of polls so far
    \* ---- SignSpec ----
    sg_statement, sg_key, sg_fork1, sg_fork2, sg_sig1, sg_sig2,
    \* ---- SetupSpec: ProposerFactory::init ----
    su_pc,                  \* position in init
    su_authorities,         \* the `authorities` argument
    su_duty_roster,         \* what client.duty_roster answers: Ok(roster) or an error
    su_group_info,          \* what make_group_info returned
    su_result               \* how init ended

shared_vars == <<groups, table, proposed_digest, checked_validity, checked_availability,
                 lock, pc, local_proposed, signed_statement, summaries, producers, ret,
                 fetch_block_calls, fetch_extrinsic_calls, was_proposed>>
producer_vars == <<producer, fetch_future, poll_result, polls>>
sign_vars == <<sg_statement, sg_key, sg_fork1, sg_fork2, sg_sig1, sg_sig2>>
setup_vars == <<su_pc, su_authorities, su_duty_roster, su_group_info, su_result>>
vars == <<shared_vars, producer_vars, sign_vars, setup_vars>>

\* The inner state guarded by the mutex.
inner == <<table, proposed_digest, checked_validity, checked_availability>>

-----------------------------------------------------------------------------
\* Bounds

HashLen == 2            \* bytes in a Hash of the model
MaxByte == 1            \* a byte ranges over 0..MaxByte
MaxBatch == 2           \* statements yielded by the iterator of import_statements
MaxPolls == 3           \* polls of one StatementProducer
MaxRoster == 2          \* entries of a duty list and of the authority list

\* usize::max_value(); the model keeps it as the largest integer of the checker.
UsizeMax == 2147483647

-----------------------------------------------------------------------------
\* Option<T> is the set of at most one element.

None == {}
Some(x) == {x}
Unwrap(o) == CHOOSE x \in o : TRUE

Threads == {"t1", "t2"}
NoThread == "none"

Authorities == {"A", "B"}
Keys == {"keyA", "keyB"}
\* ed25519::Pair::public
Public(key) == IF key = "keyA" THEN "A" ELSE "B"
\* the key handed to SharedTable::new
LocalKey == "keyA"

ParaIds == {1, 2}

Byte == 0..MaxByte
Hash == [1..HashLen -> Byte]

\* CandidateReceipt: the parachain and the head data (the fields the model keeps).
Receipts == {[parachain_index |-> 1, head_data |-> <<>>],
             [parachain_index |-> 2, head_data |-> <<1>>]}

\* CandidateReceipt::hash: distinct receipts of the model get distinct hashes.
CandidateHash(c) == [k \in 1..HashLen |-> IF k = 1 THEN c.parachain_index - 1 ELSE 0]

Digests == {CandidateHash(c) : c \in Receipts}

\* the parent hash the table of Spec is built on
ParentHash == [k \in 1..HashLen |-> 0]

\* table::Statement
CandidateStatements(rs) == {[tag |-> "Candidate", receipt |-> c] : c \in rs}
VoteStatements(hs) == {[tag |-> t, hash |-> h] : t \in {"Valid", "Invalid", "Available"}, h \in hs}
Statements(rs, hs) == CandidateStatements(rs) \cup VoteStatements(hs)

\* the digest a statement is about
StatementDigest(s) == IF s.tag = "Candidate" THEN CandidateHash(s.receipt) ELSE s.hash

\* GroupInfo values a round may be configured with: every combination of the
\* local authority "A" being a validity / availability guarantor.
GroupInfos ==
    {[validity_guarantors |-> v, availability_guarantors |-> a,
      needed_validity |-> 2, needed_availability |-> 1] :
        v \in {{"A", "B"}, {"B"}}, a \in {{"A"}, {}}}

\* the maps SharedTable::new may be given
GroupMaps == UNION {[ps -> GroupInfos] : ps \in SUBSET ParaIds}

-----------------------------------------------------------------------------
\* TableContext

\* is_member_of answering true for a group it does not know
is_member_of_unknown_true(authority, group) ==
    IF group \in DOMAIN groups THEN authority \in groups[group].validity_guarantors ELSE TRUE

\* impl table::Context for TableContext
is_member_of(authority, group) ==
    IF group \in DOMAIN groups THEN authority \in groups[group].validity_guarantors ELSE FALSE

is_availability_guarantor_of(authority, group) ==
    IF group \in DOMAIN groups THEN authority \in groups[group].availability_guarantors ELSE FALSE

requisite_votes(group) ==
    IF group \in DOMAIN groups
    THEN <<groups[group].needed_validity, groups[group].needed_availability>>
    ELSE <<UsizeMax, UsizeMax>>

\* TableContext::local_id
local_id == Public(LocalKey)

\* Slicable::encode of a CandidateReceipt: the parachain, then the
\* length-prefixed head data.
EncodeReceipt(c) == <<c.parachain_index, Len(c.head_data)>> \o c.head_data

\* the `match *statement` of sign_table_statement: the table statement as a
\* primitives statement, tagged by its kind
RawStatement(statement) ==
    CASE statement.tag = "Candidate" -> [kind |-> 1, payload |-> EncodeReceipt(statement.receipt)]
      [] statement.tag = "Valid"     -> [kind |-> 2, payload |-> statement.hash]
      [] statement.tag = "Invalid"   -> [kind |-> 3, payload |-> statement.hash]
      [] statement.tag = "Available" -> [kind |-> 4, payload |-> statement.hash]

\* Slicable::encode of the primitives statement: kind byte, then the payload
EncodeStatement(raw) == <<raw.kind>> \o raw.payload

\* ed25519::Pair::sign, as an ideal signature: it determines the signer and
\* the message, and nothing else makes two signatures equal.
Ed25519Sign(key, message) == [signer |-> Public(key), message |-> message]

\* sign_table_statement signing the encoded statement alone
sign_table_statement_no_parent(statement, key, parent_hash) ==
    Ed25519Sign(key, EncodeStatement(RawStatement(statement)))

\* sign_table_statement
sign_table_statement(statement, key, parent_hash) ==
    LET raw == RawStatement(statement)
        encoded == EncodeStatement(raw) \o parent_hash
    IN Ed25519Sign(key, encoded)

\* a statement signed by the holder of `key` for the round on `parent_hash`
SignWith(statement, key, parent_hash) ==
    [statement |-> statement,
     signature |-> sign_table_statement(statement, key, parent_hash),
     sender |-> Public(key)]

\* TableContext::sign_statement
sign_statement(statement) == SignWith(statement, LocalKey, ParentHash)

-----------------------------------------------------------------------------
\* Table (polkadot_statement_table): the collaborator behind SharedTableInner.
\* It answers an import with no summary, or with the summary of the candidate
\* the statement is about; an accepted Candidate statement stores its receipt.

GroupOfDigest(d) == (CHOOSE c \in Receipts : CandidateHash(c) = d).parachain_index

Summary(d) == [candidate |-> d, group_id |-> GroupOfDigest(d)]

\* Table::import_statement: the possible [table, summary] outcomes
Table_import_statement(tbl, signed, received_from) ==
    LET s == signed.statement
        d == StatementDigest(s)
    IN {[table |-> tbl, summary |-> None]} \cup
       {[table |-> IF s.tag = "Candidate" THEN tbl \cup {s.receipt} ELSE tbl,
         summary |-> Some(Summary(d))]}

\* Table::get_candidate
Table_get_candidate(tbl, digest) == {c \in tbl : CandidateHash(c) = digest}

\* Table::get_misbehavior: the Table of the model records no misbehaviour
Table_get_misbehavior(tbl) == {}

\* Table::fill_batch: the batch is filled from what the Table stores
Table_fill_batch(tbl) == tbl

-----------------------------------------------------------------------------
\* StatementProducer

\* ProducedStatements::default
DefaultProducedStatements == [validity |-> None, availability |-> None]

\* future::Fuse around a router future for `candidate`; `done` once the
\* inner future was dropped after completing
Fuse(candidate) == [candidate |-> candidate, done |-> FALSE]

\* the producer import_statement starts from (lines 185-190)
NewProducer ==
    [fetch_block_data |-> None, fetch_extrinsic |-> None,
     produced_statements |-> DefaultProducedStatements]

-----------------------------------------------------------------------------
\* SharedTableInner::import_statement

\* the first two conjuncts of `checking_validity`: when they hold the digest is
\* inserted into checked_validity
\* the decision without the self-proposal test
validity_wanted_own_too(digest, group_id) ==
    is_member_of(local_id, group_id)

validity_wanted(digest, group_id) ==
    /\ is_member_of(local_id, group_id)
    /\ (proposed_digest = None \/ Unwrap(proposed_digest) # digest)

\* checking_validity without the insert into checked_validity
checking_validity_no_dedup(digest, group_id) ==
    validity_wanted(digest, group_id)

checking_validity(digest, group_id) ==
    /\ validity_wanted(digest, group_id)
    /\ digest \notin checked_validity

\* the decision without the membership test
availability_wanted_any_role(digest, group_id) == TRUE

availability_wanted(digest, group_id) ==
    is_availability_guarantor_of(local_id, group_id)

\* the self-proposal test applied to availability as well
checking_availability_not_own(digest, group_id) ==
    /\ availability_wanted(digest, group_id)
    /\ (proposed_digest = None \/ Unwrap(proposed_digest) # digest)
    /\ digest \notin checked_availability

\* checking_availability without the insert into checked_availability
checking_availability_no_dedup(digest, group_id) ==
    availability_wanted(digest, group_id)

checking_availability(digest, group_id) ==
    /\ availability_wanted(digest, group_id)
    /\ digest \notin checked_availability

\* the fetches scheduled without looking the receipt up in the Table
ProducerFor_no_lookup(tbl, digest, cv, ca) ==
    LET c == CHOOSE r \in Receipts : CandidateHash(r) = digest IN
    [NewProducer EXCEPT
        !.fetch_block_data = IF cv THEN Some(Fuse(c)) ELSE None,
        !.fetch_extrinsic  = IF ca THEN Some(Fuse(c)) ELSE None]

\* lines 212-225: the producer for a summary, given the two decisions
ProducerFor(tbl, digest, cv, ca) ==
    LET found == Table_get_candidate(tbl, digest) IN
    IF (cv \/ ca) /\ found # None
    THEN [NewProducer EXCEPT
            !.fetch_block_data = IF cv THEN Some(Fuse(Unwrap(found))) ELSE None,
            !.fetch_extrinsic  = IF ca THEN Some(Fuse(Unwrap(found))) ELSE None]
    ELSE NewProducer

\* the router calls a producer stands for
BlockFetches(p, d) ==
    IF p.fetch_block_data # None /\ CandidateHash(Unwrap(p.fetch_block_data).candidate) = d
    THEN 1 ELSE 0
ExtrinsicFetches(p, d) ==
    IF p.fetch_extrinsic # None /\ CandidateHash(Unwrap(p.fetch_extrinsic).candidate) = d
    THEN 1 ELSE 0

\* SharedTableInner::import_statement, run by thread t on one statement
import_statement(t, signed, received_from) ==
    \E out \in Table_import_statement(table, signed, received_from) :
        /\ table' = out.table
        /\ summaries' = [summaries EXCEPT ![t] = Append(@, out.summary)]
        /\ IF out.summary = None
           THEN /\ producers' = [producers EXCEPT ![t] = Append(@, NewProducer)]
                /\ UNCHANGED <<checked_validity, checked_availability,
                               fetch_block_calls, fetch_extrinsic_calls>>
           ELSE LET summary == Unwrap(out.summary)
                    digest == summary.candidate
                    cv == checking_validity(digest, summary.group_id)
                    ca == checking_availability(digest, summary.group_id)
                    p == ProducerFor(out.table, digest, cv, ca)
                IN /\ checked_validity' =
                        IF validity_wanted(digest, summary.group_id)
                        THEN checked_validity \cup {digest} ELSE checked_validity
                   /\ checked_availability' =
                        IF availability_wanted(digest, summary.group_id)
                        THEN checked_availability \cup {digest} ELSE checked_availability
                   /\ producers' = [producers EXCEPT ![t] = Append(@, p)]
                   /\ fetch_block_calls' =
                        [d \in Digests |-> fetch_block_calls[d] + BlockFetches(p, d)]
                   /\ fetch_extrinsic_calls' =
                        [d \in Digests |-> fetch_extrinsic_calls[d] + ExtrinsicFetches(p, d)]

-----------------------------------------------------------------------------
\* SharedTable: the entry points, one action per step of each

\* the statements and senders the callers of Spec hand in
AllStatements == Statements(Receipts, Digests)
ReceivedStatements == {SignWith(s, k, ParentHash) : s \in AllStatements, k \in Keys}
ReceivedFrom == {None} \cup {Some(a) : a \in Authorities \ {local_id}}

\* a mutex that lets its holder lock again
AcquireReentrant(t) == lock \in {NoThread, t} /\ lock' = t

\* Mutex::lock: blocks until the mutex is free
Acquire(t) == lock = NoThread /\ lock' = t

\* where a thread can call a locking method of the handle: between calls, or
\* from inside the callback of with_candidate
CallSite(t) == pc[t] \in {"idle", "wc_reentered"}

\* the guard outliving the call
ReleaseForgotten(t) == lock' = lock

\* the MutexGuard is dropped
Release(t) == lock' = NoThread

call_locals == <<local_proposed, signed_statement, summaries, producers, ret>>
router_vars == <<fetch_block_calls, fetch_extrinsic_calls>>
other_specs == <<producer_vars, sign_vars, setup_vars>>

Goto(t, label) == pc' = [pc EXCEPT ![t] = label]

\* the value is handed to the caller: the locals of the call are gone
ClearLocals(t) ==
    /\ local_proposed' = [local_proposed EXCEPT ![t] = None]
    /\ signed_statement' = [signed_statement EXCEPT ![t] = None]
    /\ summaries' = [summaries EXCEPT ![t] = <<>>]
    /\ producers' = [producers EXCEPT ![t] = <<>>]
    /\ ret' = [ret EXCEPT ![t] = None]

\* ---- import_statement (lines 325-332) ----
\* self.inner.lock()
IsLock(t) ==
    /\ CallSite(t)
    /\ Acquire(t)
    /\ Goto(t, "is_import")
    /\ UNCHANGED <<groups, inner, call_locals, router_vars, was_proposed, other_specs>>

IsImport(t) ==
    /\ pc[t] = "is_import"
    /\ \E signed \in ReceivedStatements, from \in ReceivedFrom :
           import_statement(t, signed, from)
    /\ Goto(t, "unlock")
    /\ UNCHANGED <<groups, proposed_digest, lock, local_proposed, signed_statement, ret,
                   was_proposed, other_specs>>

\* ---- sign_and_import (lines 335-353) ----
\* lines 340-347: the digest of a Candidate, the signature (both from the
\* argument and the immutable context alone), then self.inner.lock()
SaiLock(t) ==
    /\ CallSite(t)
    /\ \E statement \in AllStatements :
        /\ local_proposed' = [local_proposed EXCEPT ![t] =
               IF statement.tag = "Candidate"
               THEN Some(CandidateHash(statement.receipt)) ELSE None]
        /\ signed_statement' = [signed_statement EXCEPT ![t] = Some(sign_statement(statement))]
    /\ Acquire(t)
    /\ Goto(t, "sai_set")
    /\ UNCHANGED <<groups, inner, summaries, producers, ret, router_vars,
                   was_proposed, other_specs>>

\* the write through a guard of its own, dropped before the import
SaiGuardDropped(t) == lock' = NoThread

\* the guard `inner` of line 347 lives to the end of the function
SaiGuard(t) == UNCHANGED lock

\* the assignment without the is_some() test
proposed_after_unconditional(current, local) == local

\* the assignment made only while nothing was proposed yet
proposed_after_keep_first(current, local) ==
    IF local # None /\ current = None THEN local ELSE current

\* lines 348-350: inner.proposed_digest after the `if`
proposed_after(current, local) == IF local # None THEN local ELSE current

\* lines 348-350
SaiSet(t) ==
    /\ pc[t] = "sai_set"
    /\ proposed_digest' = proposed_after(proposed_digest, local_proposed[t])
    /\ was_proposed' = was_proposed \cup proposed_digest'
    /\ SaiGuard(t)
    /\ Goto(t, "sai_import")
    /\ UNCHANGED <<groups, table, checked_validity, checked_availability,
                   call_locals, router_vars, other_specs>>

\* line 352: the signed statement is moved into the import
SaiImport(t) ==
    /\ pc[t] = "sai_import"
    /\ import_statement(t, Unwrap(signed_statement[t]), None)
    /\ signed_statement' = [signed_statement EXCEPT ![t] = None]
    /\ Goto(t, "unlock")
    /\ UNCHANGED <<groups, proposed_digest, lock, local_proposed, ret,
                   was_proposed, other_specs>>

\* ---- import_statements (lines 358-372) ----
\* line 367
ImsLock(t) ==
    /\ CallSite(t)
    /\ Acquire(t)
    /\ Goto(t, "ims_iter")
    /\ UNCHANGED <<groups, inner, call_locals, router_vars, was_proposed, other_specs>>

\* the lock taken per item: the guard is dropped after each import
BatchGuardPerItem(t) == lock' = NoThread

\* the guard lives in the closure of the map: it is held from one item to the next
BatchGuard(t) == UNCHANGED lock

\* lines 369-371: the iterator yields one more (statement, received_from)
ImsNext(t) ==
    /\ pc[t] = "ims_iter"
    /\ Len(producers[t]) < MaxBatch
    /\ \E signed \in ReceivedStatements, from \in ReceivedFrom :
           import_statement(t, signed, from)
    /\ BatchGuard(t)
    /\ UNCHANGED <<groups, proposed_digest, pc, local_proposed, signed_statement, ret,
                   was_proposed, other_specs>>

\* the iterator is exhausted: collect() ends, the closure and its guard are
\* dropped and the collection is returned
ImsCollect(t) ==
    /\ pc[t] = "ims_iter"
    /\ lock = t
    /\ Release(t)
    /\ Goto(t, "idle")
    /\ ClearLocals(t)
    /\ UNCHANGED <<groups, inner, router_vars, was_proposed, other_specs>>

\* the value an accessor hands back, with the accessor it came from
Returned(op, value) == [op |-> op, value |-> value]

\* ---- proposed_hash (lines 400-402) ----
PhLock(t) ==
    /\ CallSite(t)
    /\ Acquire(t)
    /\ Goto(t, "ph_read")
    /\ UNCHANGED <<groups, inner, call_locals, router_vars, was_proposed, other_specs>>

PhRead(t) ==
    /\ pc[t] = "ph_read"
    /\ ret' = [ret EXCEPT ![t] = Some(Returned("proposed_hash", proposed_digest))]
    /\ Goto(t, "unlock")
    /\ UNCHANGED <<groups, inner, lock, local_proposed, signed_statement, summaries,
                   producers, router_vars, was_proposed, other_specs>>

\* ---- with_candidate (lines 382-387) ----
\* line 385
WcLock(t) ==
    /\ CallSite(t)
    /\ Acquire(t)
    /\ Goto(t, "wc_callback")
    /\ UNCHANGED <<groups, inner, call_locals, router_vars, was_proposed, other_specs>>

\* line 386: f runs on the receipt found for the digest and returns without
\* touching the handle
WcCallback(t) ==
    /\ pc[t] = "wc_callback"
    /\ \E digest \in Digests :
          ret' = [ret EXCEPT ![t] =
                     Some(Returned("with_candidate", Table_get_candidate(table, digest)))]
    /\ Goto(t, "unlock")
    /\ UNCHANGED <<groups, inner, lock, local_proposed, signed_statement, summaries,
                   producers, router_vars, was_proposed, other_specs>>

\* line 386: f calls a locking method of the same handle, which starts with
\* self.inner.lock()
WcReenter(t) ==
    /\ pc[t] = "wc_callback"
    /\ Goto(t, "wc_reentered")
    /\ UNCHANGED <<groups, inner, lock, call_locals, router_vars, was_proposed, other_specs>>

\* ---- get_misbehavior (lines 390-392) ----
GmLock(t) ==
    /\ CallSite(t)
    /\ Acquire(t)
    /\ Goto(t, "gm_read")
    /\ UNCHANGED <<groups, inner, call_locals, router_vars, was_proposed, other_specs>>

GmRead(t) ==
    /\ pc[t] = "gm_read"
    /\ ret' = [ret EXCEPT ![t] = Some(Returned("get_misbehavior", Table_get_misbehavior(table)))]
    /\ Goto(t, "unlock")
    /\ UNCHANGED <<groups, inner, lock, local_proposed, signed_statement, summaries,
                   producers, router_vars, was_proposed, other_specs>>

\* ---- fill_batch (lines 395-397) ----
FbLock(t) ==
    /\ CallSite(t)
    /\ Acquire(t)
    /\ Goto(t, "fb_fill")
    /\ UNCHANGED <<groups, inner, call_locals, router_vars, was_proposed, other_specs>>

FbFill(t) ==
    /\ pc[t] = "fb_fill"
    /\ ret' = [ret EXCEPT ![t] = Some(Returned("fill_batch", Table_fill_batch(table)))]
    /\ Goto(t, "unlock")
    /\ UNCHANGED <<groups, inner, lock, local_proposed, signed_statement, summaries,
                   producers, router_vars, was_proposed, other_specs>>

\* ---- the end of import_statement, sign_and_import and the accessors: the
\* guard is dropped and the value returned ----
Return(t) ==
    /\ pc[t] = "unlock"
    /\ lock = t
    /\ Release(t)
    /\ Goto(t, "idle")
    /\ ClearLocals(t)
    /\ UNCHANGED <<groups, inner, router_vars, was_proposed, other_specs>>

\* values of the variables a specification does not use
ProducerIdle ==
    /\ producer = NewProducer
    /\ fetch_future = [block |-> "absent", extrinsic |-> "absent"]
    /\ poll_result = [kind |-> "Unpolled", error |-> None, item |-> None]
    /\ polls = 0

SignIdle ==
    /\ sg_statement = None /\ sg_key = None /\ sg_fork1 = None /\ sg_fork2 = None
    /\ sg_sig1 = None /\ sg_sig2 = None

SetupIdle ==
    /\ su_pc = "unused"
    /\ su_authorities = <<>>
    /\ su_duty_roster = [result |-> [kind |-> "Ok", error |-> [error |-> "none", expected |-> 0, got |-> 0]],
                         roster |-> [validator_duty |-> <<>>, guarantor_duty |-> <<>>]]
    /\ su_group_info = None
    /\ su_result = None

\* SharedTable::new (lines 311-321)
SharedInit ==
    /\ table = {}
    /\ proposed_digest = None
    /\ checked_validity = {}
    /\ checked_availability = {}
    /\ lock = NoThread
    /\ pc = [t \in Threads |-> "idle"]
    /\ local_proposed = [t \in Threads |-> None]
    /\ signed_statement = [t \in Threads |-> None]
    /\ summaries = [t \in Threads |-> <<>>]
    /\ producers = [t \in Threads |-> <<>>]
    /\ ret = [t \in Threads |-> None]
    /\ fetch_block_calls = [d \in Digests |-> 0]
    /\ fetch_extrinsic_calls = [d \in Digests |-> 0]
    /\ was_proposed = {}

Init ==
    /\ groups \in GroupMaps
    /\ SharedInit
    /\ ProducerIdle
    /\ SignIdle
    /\ SetupIdle

Next ==
    \E t \in Threads :
        \/ IsLock(t)
        \/ IsImport(t)
        \/ SaiLock(t)
        \/ SaiSet(t)
        \/ SaiImport(t)
        \/ ImsLock(t)
        \/ ImsNext(t)
        \/ ImsCollect(t)
        \/ PhLock(t)
        \/ PhRead(t)
        \/ WcLock(t)
        \/ WcCallback(t)
        \/ WcReenter(t)
        \/ GmLock(t)
        \/ GmRead(t)
        \/ FbLock(t)
        \/ FbFill(t)
        \/ Return(t)

Spec == Init /\ [][Next]_vars

-----------------------------------------------------------------------------
\* StatementProducer::poll (lines 257-288), in ProducerSpec

\* the result of a poll: Poll<ProducedStatements, Err>, or the panic of
\* unimplemented!()
PollValue(kind, error, item) == [kind |-> kind, error |-> error, item |-> item]

\* Fuse::poll on Option<Fuse<F>>: a fuse that already completed answers
\* NotReady; one that completes now (Ready or Err) drops its future
PollFuse(fuse, future) ==
    IF fuse = None THEN [fuse |-> fuse, out |-> "Absent"]
    ELSE IF Unwrap(fuse).done THEN [fuse |-> fuse, out |-> "NotReady"]
    ELSE CASE future = "pending" -> [fuse |-> fuse, out |-> "NotReady"]
           [] future = "ready"   -> [fuse |-> Some([Unwrap(fuse) EXCEPT !.done = TRUE]), out |-> "Ready"]
           [] future = "failed"  -> [fuse |-> Some([Unwrap(fuse) EXCEPT !.done = TRUE]), out |-> "Err"]

\* poll with `done` starting as done0: the producer after the poll and what the
\* poll returned
PollFrom(p, futures, done0) ==
    LET b == PollFuse(p.fetch_block_data, futures.block)
        p1 == [p EXCEPT !.fetch_block_data = b.fuse]
    IN  IF b.out = "Err"
        THEN [producer |-> p1, result |-> PollValue("Err", Some("block"), None)]
        ELSE IF b.out = "Ready"
        THEN [producer |-> p1, result |-> PollValue("Panic", None, None)]
        ELSE
        LET e == PollFuse(p1.fetch_extrinsic, futures.extrinsic)
            p2 == [p1 EXCEPT !.fetch_extrinsic = e.fuse]
            done == done0 /\ b.out # "NotReady" /\ e.out # "NotReady"
        IN  IF e.out = "Err"
            THEN [producer |-> p2, result |-> PollValue("Err", Some("extrinsic"), None)]
            ELSE IF e.out = "Ready"
            THEN [producer |-> p2, result |-> PollValue("Panic", None, None)]
            ELSE IF done
            THEN [producer |-> [p2 EXCEPT !.produced_statements = DefaultProducedStatements],
                  result |-> PollValue("Ready", None, Some(p2.produced_statements))]
            ELSE [producer |-> p2, result |-> PollValue("NotReady", None, None)]

\* poll with `done` starting false
poll_done_false(p, futures) == PollFrom(p, futures, FALSE)

\* StatementProducer::poll
poll(p, futures) == PollFrom(p, futures, TRUE)

\* the producers import_statement can return: no summary, or a summary with
\* each outcome of the two decisions and of the receipt lookup
ProducerShapes ==
    {NewProducer} \cup
    {ProducerFor(tbl, CandidateHash(c), cv, ca) :
        tbl \in SUBSET Receipts, c \in Receipts, cv \in BOOLEAN, ca \in BOOLEAN}

FutureOf(fuse) == IF fuse = None THEN "absent" ELSE "pending"

\* the task driving the producer polls it
Poll ==
    /\ polls < MaxPolls
    /\ poll_result.kind # "Panic"
    /\ LET r == poll(producer, fetch_future) IN
        /\ producer' = r.producer
        /\ poll_result' = r.result
    /\ polls' = polls + 1
    /\ UNCHANGED <<fetch_future, shared_vars, sign_vars, setup_vars>>

\* the router's block-data fetch completes
FetchBlockDataCompletes ==
    /\ fetch_future.block = "pending"
    /\ \E outcome \in {"ready", "failed"} :
        fetch_future' = [fetch_future EXCEPT !.block = outcome]
    /\ UNCHANGED <<producer, poll_result, polls, shared_vars, sign_vars, setup_vars>>

\* the router's extrinsic fetch completes
FetchExtrinsicCompletes ==
    /\ fetch_future.extrinsic = "pending"
    /\ \E outcome \in {"ready", "failed"} :
        fetch_future' = [fetch_future EXCEPT !.extrinsic = outcome]
    /\ UNCHANGED <<producer, poll_result, polls, shared_vars, sign_vars, setup_vars>>

\* a round without groups, for the specifications that do not import
NoGroups == [p \in {} |-> 0]

ProducerInit ==
    /\ groups = NoGroups
    /\ SharedInit
    /\ SignIdle
    /\ SetupIdle
    /\ producer \in ProducerShapes
    /\ fetch_future = [block |-> FutureOf(producer.fetch_block_data),
                       extrinsic |-> FutureOf(producer.fetch_extrinsic)]
    /\ poll_result = PollValue("Unpolled", None, None)
    /\ polls = 0

ProducerNext == Poll \/ FetchBlockDataCompletes \/ FetchExtrinsicCompletes

ProducerSpec == ProducerInit /\ [][ProducerNext]_vars

-----------------------------------------------------------------------------
\* sign_table_statement under two parent hashes, in SignSpec

SignInit ==
    /\ groups = NoGroups
    /\ SharedInit
    /\ ProducerIdle
    /\ SetupIdle
    /\ sg_statement \in {Some(s) : s \in Statements(Receipts, Hash)}
    /\ sg_key \in {Some(k) : k \in Keys}
    /\ sg_fork1 \in {Some(h) : h \in Hash}
    /\ sg_fork2 \in {Some(h) : h \in Hash}
    /\ sg_sig1 = None
    /\ sg_sig2 = None

SignFork1 ==
    /\ sg_sig1 = None
    /\ sg_sig1' = Some(sign_table_statement(Unwrap(sg_statement), Unwrap(sg_key), Unwrap(sg_fork1)))
    /\ UNCHANGED <<sg_statement, sg_key, sg_fork1, sg_fork2, sg_sig2, shared_vars, producer_vars, setup_vars>>

SignFork2 ==
    /\ sg_sig2 = None
    /\ sg_sig2' = Some(sign_table_statement(Unwrap(sg_statement), Unwrap(sg_key), Unwrap(sg_fork2)))
    /\ UNCHANGED <<sg_statement, sg_key, sg_fork1, sg_fork2, sg_sig1, shared_vars, producer_vars, setup_vars>>

SignNext == SignFork1 \/ SignFork2

SignSpec == SignInit /\ [][SignNext]_vars

-----------------------------------------------------------------------------
\* ProposerFactory::init and make_group_info (lines 413-438), in SetupSpec

\* sequences over S of length at most n
SeqsUpTo(S, n) == UNION {[1..k -> S] : k \in 0..n}

\* Chain: the relay chain or a parachain
Duties == {<<"Relay", 0>>} \cup {<<"Parachain", p>> : p \in ParaIds}

\* DutyRoster
DutyRosters == [validator_duty : SeqsUpTo(Duties, MaxRoster),
                guarantor_duty : SeqsUpTo(Duties, MaxRoster)]

\* ErrorKind::InvalidDutyRosterLength (error.rs lines 26-29)
InvalidDutyRosterLength(expected, got) ==
    [error |-> "InvalidDutyRosterLength", expected |-> expected, got |-> got]

\* the error linked from polkadot_api (error.rs line 21)
PolkadotApiError == [error |-> "PolkadotApi", expected |-> 0, got |-> 0]
NoError == [error |-> "none", expected |-> 0, got |-> 0]

\* how a call ends: Ok, Err(error), or the panic of unimplemented!()
Ok == [kind |-> "Ok", error |-> NoError]
Err(e) == [kind |-> "Err", error |-> e]
Panicked == [kind |-> "Panic", error |-> NoError]

\* what client.duty_roster answers
NoRoster == [validator_duty |-> <<>>, guarantor_duty |-> <<>>]
RosterAnswers ==
    {[result |-> Err(PolkadotApiError), roster |-> NoRoster]} \cup
    {[result |-> Ok, roster |-> r] : r \in DutyRosters}

\* make_group_info: the two length checks, then the unimplemented body
make_group_info(duty_roster, authorities) ==
    IF Len(duty_roster.validator_duty) # Len(authorities)
    THEN Err(InvalidDutyRosterLength(Len(authorities), Len(duty_roster.validator_duty)))
    ELSE IF Len(duty_roster.guarantor_duty) # Len(authorities)
    THEN Err(InvalidDutyRosterLength(Len(authorities), Len(duty_roster.guarantor_duty)))
    ELSE Panicked

\* line 433: self.client.duty_roster(..)?
SuDutyRoster ==
    /\ su_pc = "duty_roster"
    /\ IF su_duty_roster.result.kind = "Err"
       THEN /\ su_result' = Some(su_duty_roster.result)
            /\ su_pc' = "done"
       ELSE /\ su_pc' = "make_group_info"
            /\ UNCHANGED su_result
    /\ UNCHANGED <<su_authorities, su_duty_roster, su_group_info, shared_vars,
                   producer_vars, sign_vars>>

\* line 435: make_group_info(duty_roster, authorities); the Result is dropped
SuMakeGroupInfo ==
    /\ su_pc = "make_group_info"
    /\ LET r == make_group_info(su_duty_roster.roster, su_authorities) IN
        /\ su_group_info' = Some(r)
        /\ IF r.kind = "Panic"
           THEN su_result' = Some(Panicked) /\ su_pc' = "done"
           ELSE UNCHANGED su_result /\ su_pc' = "unimplemented"
    /\ UNCHANGED <<su_authorities, su_duty_roster, shared_vars, producer_vars, sign_vars>>

\* line 437: unimplemented!()
SuUnimplemented ==
    /\ su_pc = "unimplemented"
    /\ su_result' = Some(Panicked)
    /\ su_pc' = "done"
    /\ UNCHANGED <<su_authorities, su_duty_roster, su_group_info, shared_vars,
                   producer_vars, sign_vars>>

SetupInit ==
    /\ groups = NoGroups
    /\ SharedInit
    /\ ProducerIdle
    /\ SignIdle
    /\ su_pc = "duty_roster"
    /\ su_authorities \in SeqsUpTo(Authorities, MaxRoster)
    /\ su_duty_roster \in RosterAnswers
    /\ su_group_info = None
    /\ su_result = None

SetupNext == SuDutyRoster \/ SuMakeGroupInfo \/ SuUnimplemented

SetupSpec == SetupInit /\ [][SetupNext]_vars

-----------------------------------------------------------------------------
\* Properties

\* the positions at which a thread holds the guard
LockedPcs == {"is_import", "sai_set", "sai_import", "ims_iter", "ph_read", "unlock",
              "wc_callback", "wc_reentered", "gm_read", "fb_fill"}

\* the statements of the current call of t that the Table summarised
Summarised(t) == {i \in 1..Len(summaries[t]) : summaries[t][i] # None}

\* fetches for digest d among the producers of the current call of t
CallBlockFetches(t, d) ==
    Cardinality({i \in 1..Len(producers[t]) : BlockFetches(producers[t][i], d) = 1})
CallExtrinsicFetches(t, d) ==
    Cardinality({i \in 1..Len(producers[t]) : ExtrinsicFetches(producers[t][i], d) = 1})

\* C1: for every digest, however many statements about it are imported through
\* import_statement, import_statements and sign_and_import, the router is asked
\* for its block data at most once and for its extrinsic data at most once.
C1_FetchAtMostOnce ==
    \A d \in Digests : fetch_block_calls[d] <= 1 /\ fetch_extrinsic_calls[d] <= 1

\* a later statement about an already fetched digest was summarised by the
\* Table, the local authority has both roles and did not propose the digest,
\* and the import scheduled nothing
C1_Witness ==
    \E t \in Threads : \E i \in Summarised(t) :
        LET sm == Unwrap(summaries[t][i]) IN
        /\ fetch_block_calls[sm.candidate] = 1
        /\ fetch_extrinsic_calls[sm.candidate] = 1
        /\ producers[t][i] = NewProducer
        /\ is_member_of(local_id, sm.group_id)
        /\ is_availability_guarantor_of(local_id, sm.group_id)
        /\ proposed_digest # Some(sm.candidate)
        /\ Table_get_candidate(table, sm.candidate) # None

\* C2 (as claimed): once a digest was written to proposed_digest by
\* sign_and_import, no later step schedules a block-data fetch for it, also
\* after later sign_and_import calls.
C2_SelfTrustForever ==
    [][\A d \in Digests :
          d \in was_proposed => fetch_block_calls'[d] = fetch_block_calls[d]]_vars

\* C3: import_statements holds the lock from its first to its last statement:
\* no other thread is inside an entry point meanwhile and no step of another
\* thread changes the inner state; the producers of one batch hold at most one
\* block-data and one extrinsic fetch per digest, and a summarised statement
\* about a digest with a stored receipt that the local authority wants to
\* validate schedules the block fetch exactly when the digest was not yet checked.
C3_BatchState ==
    \A t \in Threads : pc[t] = "ims_iter" =>
        /\ lock = t
        /\ \A u \in Threads \ {t} : pc[u] \notin LockedPcs
        /\ \A d \in Digests : CallBlockFetches(t, d) <= 1 /\ CallExtrinsicFetches(t, d) <= 1

C3_BatchStep ==
    \A t \in Threads :
        /\ (pc[t] = "ims_iter" /\ pc'[t] = "ims_iter" /\ producers'[t] = producers[t])
               => inner' = inner
        /\ (pc[t] = "ims_iter" /\ Len(producers'[t]) = Len(producers[t]) + 1) =>
               LET n == Len(producers'[t])
                   o == summaries'[t][n]
               IN  o # None =>
                     LET d == Unwrap(o).candidate
                         g == Unwrap(o).group_id
                     IN (validity_wanted(d, g) /\ Table_get_candidate(table', d) # None)
                            => (BlockFetches(producers'[t][n], d) = 1
                                    <=> d \notin checked_validity)

C3_BatchUnderOneLock == [](C3_BatchState) /\ [][C3_BatchStep]_vars

\* a batch of two summarised statements about one digest: the first scheduled
\* the block fetch, the second did not
C3_Witness ==
    \E t \in Threads :
        /\ pc[t] = "ims_iter"
        /\ Len(producers[t]) >= 2
        /\ summaries[t][1] # None
        /\ summaries[t][2] = summaries[t][1]
        /\ BlockFetches(producers[t][1], Unwrap(summaries[t][1]).candidate) = 1
        /\ producers[t][2].fetch_block_data = None

\* C4: in sign_and_import the write of proposed_digest and the import happen
\* under one lock acquisition: between the two the thread holds the lock,
\* proposed_digest still is the digest it wrote, no other thread is inside an
\* entry point and no step of another thread changes the inner state.
C4_SetState ==
    \A t \in Threads : pc[t] = "sai_import" =>
        /\ lock = t
        /\ \A u \in Threads \ {t} : pc[u] \notin LockedPcs
        /\ local_proposed[t] # None => proposed_digest = local_proposed[t]

C4_SetStep ==
    \A t \in Threads :
        (pc[t] \in {"sai_set", "sai_import"} /\ pc'[t] = pc[t]) => inner' = inner

C4_SetAndImportUnderOneLock == [](C4_SetState) /\ [][C4_SetStep]_vars

\* a thread has overwritten another proposal and is about to import
C4_Witness ==
    \E t \in Threads :
        /\ pc[t] = "sai_import"
        /\ local_proposed[t] # None
        /\ proposed_digest = local_proposed[t]
        /\ Cardinality(was_proposed) = 2

\* C5: the lock is held only inside an entry point: a thread that has returned
\* (and whatever producers it returned) holds no lock, so with all threads
\* returned the lock is free for the next import, also while fetches scheduled
\* earlier are still pending.
C5_NoLockOutsideEntryPoints ==
    /\ lock # NoThread => pc[lock] \in LockedPcs
    /\ (\A t \in Threads : pc[t] = "idle") => lock = NoThread

\* a thread completed an import with a summary while a fetch of a producer
\* returned by an earlier call is outstanding
C5_Witness ==
    \E t \in Threads :
        /\ pc[t] = "unlock"
        /\ Summarised(t) # {}
        /\ \E d \in Digests :
              fetch_block_calls[d] + fetch_extrinsic_calls[d]
                  > CallBlockFetches(t, d) + CallExtrinsicFetches(t, d)

\* C6: the same statement signed with the same key under two different parent
\* hashes gives two different signatures, for every statement variant.
C6_ForkIsolation ==
    (sg_sig1 # None /\ sg_sig2 # None /\ sg_fork1 # sg_fork2) => sg_sig1 # sg_sig2

\* a Candidate statement signed under two different forks
C6_Witness ==
    /\ sg_sig1 # None /\ sg_sig2 # None
    /\ sg_fork1 # sg_fork2
    /\ Unwrap(sg_statement).tag = "Candidate"

\* the producer has seen the fetch complete
BlockFetchSeen(outcome) ==
    /\ producer.fetch_block_data # None
    /\ Unwrap(producer.fetch_block_data).done
    /\ fetch_future.block = outcome
ExtrinsicFetchSeen(outcome) ==
    /\ producer.fetch_extrinsic # None
    /\ Unwrap(producer.fetch_extrinsic).done
    /\ fetch_future.extrinsic = outcome

\* the producer holds, or has returned, a statement
Derived(field) ==
    \/ producer.produced_statements[field] # None
    \/ poll_result.kind = "Ready" /\ Unwrap(poll_result.item)[field] # None

\* C7 (as claimed): a poll that sees the block-data fetch succeed derives a
\* validity statement, one that sees the extrinsic fetch succeed derives an
\* availability statement, and neither poll fails.
C7_FetchDerivesStatement ==
    /\ BlockFetchSeen("ready") => (poll_result.kind # "Panic" /\ Derived("validity"))
    /\ ExtrinsicFetchSeen("ready") => (poll_result.kind # "Panic" /\ Derived("availability"))

\* a sub-fetch has failed and the producer has not yet seen it
FailureUnseen ==
    \/ /\ producer.fetch_block_data # None
       /\ ~Unwrap(producer.fetch_block_data).done
       /\ fetch_future.block = "failed"
    \/ /\ producer.fetch_extrinsic # None
       /\ ~Unwrap(producer.fetch_extrinsic).done
       /\ fetch_future.extrinsic = "failed"

\* C8 (as claimed): a poll made while a sub-fetch has failed returns an error,
\* and a producer that has seen a failure never resolves and holds no statement.
C8_ErrorReturned ==
    /\ [][(polls' = polls + 1 /\ FailureUnseen) => poll_result'.kind = "Err"]_vars
    /\ []((BlockFetchSeen("failed") \/ ExtrinsicFetchSeen("failed")) =>
            /\ poll_result.kind # "Ready"
            /\ producer.produced_statements = DefaultProducedStatements)

\* C9: a producer with neither fetch scheduled has, from its first poll on,
\* resolved to ProducedStatements with validity and availability both empty.
C9_EmptyResolvesAtOnce ==
    (producer.fetch_block_data = None /\ producer.fetch_extrinsic = None /\ polls >= 1) =>
        poll_result = PollValue("Ready", None, Some([validity |-> None, availability |-> None]))

\* the empty producer was polled once
C9_Witness ==
    /\ producer.fetch_block_data = None /\ producer.fetch_extrinsic = None
    /\ polls = 1
    /\ poll_result.kind = "Ready"

\* C10: for a ParaId missing from the group map requisite_votes is
\* (usize::MAX, usize::MAX), above any number of votes, and no authority is a
\* validity or availability guarantor; no digest of such a group is ever
\* inserted into a dedup set or fetched.
C10_UnknownGroupFailSafe ==
    /\ \A p \in ParaIds \ DOMAIN groups :
          /\ requisite_votes(p) = <<UsizeMax, UsizeMax>>
          /\ UsizeMax > Cardinality(Authorities)
          /\ \A a \in Authorities :
                ~is_member_of(a, p) /\ ~is_availability_guarantor_of(a, p)
    /\ \A d \in Digests : GroupOfDigest(d) \notin DOMAIN groups =>
          /\ d \notin checked_validity
          /\ d \notin checked_availability
          /\ fetch_block_calls[d] = 0
          /\ fetch_extrinsic_calls[d] = 0

\* an import was summarised for a candidate of an unconfigured group whose
\* receipt the Table stores
C10_Witness ==
    \E t \in Threads : \E i \in Summarised(t) :
        LET sm == Unwrap(summaries[t][i]) IN
        /\ sm.group_id \notin DOMAIN groups
        /\ Table_get_candidate(table, sm.candidate) # None
        /\ producers[t][i] = NewProducer


\* C11 (as claimed): when the validator_duty or the guarantor_duty list of the
\* roster differs in length from the authority list, init ends by returning
\* InvalidDutyRosterLength(number of authorities, length of the list) to its
\* caller, and no SharedTable has been used.
C11_RosterLengthErrorReturned ==
    (su_pc = "done" /\ su_duty_roster.result.kind = "Ok") =>
        LET r == su_duty_roster.roster
            n == Len(su_authorities)
        IN  /\ Len(r.validator_duty) # n =>
                su_result = Some(Err(InvalidDutyRosterLength(n, Len(r.validator_duty))))
            /\ (Len(r.validator_duty) = n /\ Len(r.guarantor_duty) # n) =>
                su_result = Some(Err(InvalidDutyRosterLength(n, Len(r.guarantor_duty))))
            /\ (Len(r.validator_duty) # n \/ Len(r.guarantor_duty) # n) =>
                (table = {} /\ checked_validity = {} /\ checked_availability = {})


\* thread t imports one statement in this step; what the Table answered and the
\* producer that was built
ImportStep(t) == Len(summaries'[t]) = Len(summaries[t]) + 1
LastSummary(t) == summaries'[t][Len(summaries'[t])]
LastProducer(t) == producers'[t][Len(producers'[t])]

\* C12: the router is never asked for the block data of a candidate of a group
\* the local authority does not validate, nor for the extrinsic data of a
\* candidate of a group it is no availability guarantor of. For a validity
\* guarantor that is no availability guarantor and did not author the
\* candidate, a summarised import with the receipt stored brings the block-data
\* calls for the digest to exactly one on the first import and leaves them
\* there on a later one (Candidate(C), then Valid(C)); no extrinsic call is made.
C12_RoleState ==
    \A d \in Digests :
        /\ ~is_member_of(local_id, GroupOfDigest(d)) =>
              (fetch_block_calls[d] = 0 /\ d \notin checked_validity)
        /\ ~is_availability_guarantor_of(local_id, GroupOfDigest(d)) =>
              (fetch_extrinsic_calls[d] = 0 /\ d \notin checked_availability)

C12_RoleStep ==
    \A t \in Threads : (ImportStep(t) /\ LastSummary(t) # None) =>
        LET d == Unwrap(LastSummary(t)).candidate
            g == Unwrap(LastSummary(t)).group_id
        IN  (/\ is_member_of(local_id, g)
             /\ ~is_availability_guarantor_of(local_id, g)
             /\ d \notin was_proposed
             /\ Table_get_candidate(table', d) # None)
            => /\ d \notin checked_validity =>
                    (fetch_block_calls[d] = 0 /\ fetch_block_calls'[d] = 1)
               /\ d \in checked_validity =>
                    fetch_block_calls'[d] = fetch_block_calls[d]
               /\ fetch_extrinsic_calls'[d] = 0
               /\ LastProducer(t).fetch_extrinsic = None

C12_RoleGating == [](C12_RoleState) /\ [][C12_RoleStep]_vars

\* the second import about a candidate the local authority validates but does
\* not guarantee availability of: one block-data call, no extrinsic call
C12_Witness ==
    \E t \in Threads :
        /\ pc[t] = "unlock"
        /\ Summarised(t) = {1}
        /\ producers[t][1] = NewProducer
        /\ LET sm == Unwrap(summaries[t][1]) IN
            /\ is_member_of(local_id, sm.group_id)
            /\ ~is_availability_guarantor_of(local_id, sm.group_id)
            /\ sm.candidate \notin was_proposed
            /\ Table_get_candidate(table, sm.candidate) # None
            /\ fetch_block_calls[sm.candidate] = 1
            /\ fetch_extrinsic_calls[sm.candidate] = 0

\* C13: with_candidate runs its callback holding the lock; a callback that calls
\* a locking method of the same handle stays in that call for ever, still
\* holding the lock; a callback that returns leads to the lock being released
\* when with_candidate returns.
C13_CallbackState ==
    \A t \in Threads : pc[t] \in {"wc_callback", "wc_reentered"} => lock = t

C13_CallbackStep ==
    \A t \in Threads :
        /\ pc[t] = "wc_reentered" => (pc'[t] = "wc_reentered" /\ lock' = t)
        /\ (pc[t] = "unlock" /\ pc'[t] = "idle") => lock' = NoThread

C13_ReentryDeadlocks == [](C13_CallbackState) /\ [][C13_CallbackStep]_vars

\* a callback has re-entered the handle: its thread waits for the lock it holds
C13_Witness ==
    \E t \in Threads :
        /\ pc[t] = "wc_reentered"
        /\ lock = t
        /\ \A u \in Threads \ {t} : pc[u] = "idle"

\* C14: no step removes a digest from checked_validity or checked_availability
\* (handing the producers to the caller, who may drop them, included), and once
\* a digest is in a set no later step asks the router for that kind of data again.
C14_CheckedSetsOnlyGrow ==
    [][/\ checked_validity \subseteq checked_validity'
       /\ checked_availability \subseteq checked_availability'
       /\ \A d \in Digests :
            /\ d \in checked_validity => fetch_block_calls'[d] = fetch_block_calls[d]
            /\ d \in checked_availability =>
                  fetch_extrinsic_calls'[d] = fetch_extrinsic_calls[d]]_vars

\* the producer with the extrinsic fetch of a digest is no longer with any
\* call, and a later summarised import about the digest scheduled nothing
C14_Witness ==
    \E t \in Threads : \E i \in Summarised(t) :
        LET sm == Unwrap(summaries[t][i]) IN
        /\ sm.candidate \in checked_availability
        /\ is_availability_guarantor_of(local_id, sm.group_id)
        /\ fetch_extrinsic_calls[sm.candidate] = 1
        /\ \A u \in Threads : CallExtrinsicFetches(u, sm.candidate) = 0
        /\ producers[t][i].fetch_extrinsic = None

\* C15: when the summarised digest is the local proposal, the local authority
\* is an availability guarantor of its group, the digest is not yet in
\* checked_availability and its receipt is stored, the import schedules the
\* extrinsic fetch for it and no block-data fetch.
C15_OwnCandidateAvailability ==
    [][\A t \in Threads : (ImportStep(t) /\ LastSummary(t) # None) =>
          LET d == Unwrap(LastSummary(t)).candidate
              g == Unwrap(LastSummary(t)).group_id
          IN  (/\ proposed_digest = Some(d)
               /\ is_availability_guarantor_of(local_id, g)
               /\ d \notin checked_availability
               /\ Table_get_candidate(table', d) # None)
              => /\ ExtrinsicFetches(LastProducer(t), d) = 1
                 /\ LastProducer(t).fetch_block_data = None
                 /\ fetch_extrinsic_calls'[d] = 1
                 /\ fetch_block_calls'[d] = fetch_block_calls[d]]_vars

\* the import of the own candidate, by an authority with both roles, scheduled
\* the extrinsic fetch only
C15_Witness ==
    \E t \in Threads :
        /\ pc[t] = "unlock"
        /\ Summarised(t) = {1}
        /\ LET sm == Unwrap(summaries[t][1]) IN
            /\ proposed_digest = Some(sm.candidate)
            /\ is_member_of(local_id, sm.group_id)
            /\ ExtrinsicFetches(producers[t][1], sm.candidate) = 1
            /\ producers[t][1].fetch_block_data = None
            /\ fetch_block_calls[sm.candidate] = 0

\* C16: proposed_digest changes only in the step of sign_and_import that
\* follows the lock, only for a Candidate statement and then to its digest;
\* every other step leaves it alone. proposed_hash returns the current
\* proposed_digest, which is None exactly until the first such write.
C16_ProposedState ==
    /\ proposed_digest = None <=> was_proposed = {}
    /\ proposed_digest \subseteq was_proposed
    /\ \A t \in Threads :
          (pc[t] = "unlock" /\ ret[t] # None /\ Unwrap(ret[t]).op = "proposed_hash")
              => Unwrap(ret[t]).value = proposed_digest

C16_ProposedStep ==
    proposed_digest' # proposed_digest =>
        \E t \in Threads :
            /\ pc[t] = "sai_set" /\ pc'[t] = "sai_import"
            /\ Unwrap(signed_statement[t]).statement.tag = "Candidate"
            /\ proposed_digest' =
                   Some(CandidateHash(Unwrap(signed_statement[t]).statement.receipt))

C16_ProposedDigestFrame == [](C16_ProposedState) /\ [][C16_ProposedStep]_vars

\* proposed_hash returned the digest of the second locally signed Candidate
C16_Witness ==
    \E t \in Threads :
        /\ pc[t] = "unlock"
        /\ ret[t] # None
        /\ Unwrap(ret[t]).op = "proposed_hash"
        /\ Unwrap(ret[t]).value # None
        /\ Cardinality(was_proposed) = 2

\* C17 (as claimed): a poll returns Ready only when no present sub-fetch is
\* pending, and a poll made when every present sub-fetch has completed
\* successfully returns Ready.
C17_DoneWhenAllCompleted ==
    [][polls' = polls + 1 =>
          /\ poll_result'.kind = "Ready" =>
                (fetch_future.block # "pending" /\ fetch_future.extrinsic # "pending")
          /\ (fetch_future.block \in {"absent", "ready"}
                /\ fetch_future.extrinsic \in {"absent", "ready"})
                => poll_result'.kind = "Ready"]_vars

\* C18: an import whose summary names a digest the Table holds no receipt for
\* returns the empty producer, asks the router for nothing and carries on, also
\* when it decided to check the digest.
C18_NoReceiptNoFetch ==
    [][\A t \in Threads : (ImportStep(t) /\ LastSummary(t) # None) =>
          LET d == Unwrap(LastSummary(t)).candidate IN
          Table_get_candidate(table', d) = None =>
              /\ LastProducer(t) = NewProducer
              /\ UNCHANGED router_vars
              /\ pc'[t] \in {"unlock", "ims_iter"}]_vars

\* the import decided to validate a digest without a receipt: the digest is
\* marked checked and nothing was fetched
C18_Witness ==
    \E t \in Threads :
        /\ pc[t] = "unlock"
        /\ Summarised(t) = {1}
        /\ producers[t][1] = NewProducer
        /\ LET sm == Unwrap(summaries[t][1]) IN
            /\ Table_get_candidate(table, sm.candidate) = None
            /\ is_member_of(local_id, sm.group_id)
            /\ proposed_digest # Some(sm.candidate)
            /\ sm.candidate \in checked_validity
            /\ fetch_block_calls[sm.candidate] = 0

\* C19: a digest enters checked_validity only in an import step whose summary
\* names it, with the local authority a validity guarantor of the summary's
\* group and proposed_digest not that digest; it enters checked_availability
\* only in such a step with the local authority an availability guarantor. An
\* import without a summary changes neither set nor proposed_digest.
C19_InsertsOnlyByImport ==
    [][/\ \A d \in checked_validity' \ checked_validity :
            \E t \in Threads :
                /\ ImportStep(t)
                /\ LastSummary(t) = Some(Summary(d))
                /\ is_member_of(local_id, Summary(d).group_id)
                /\ proposed_digest # Some(d)
       /\ \A d \in checked_availability' \ checked_availability :
            \E t \in Threads :
                /\ ImportStep(t)
                /\ LastSummary(t) = Some(Summary(d))
                /\ is_availability_guarantor_of(local_id, Summary(d).group_id)
       /\ \A t \in Threads : (ImportStep(t) /\ LastSummary(t) = None) =>
            UNCHANGED <<checked_validity, checked_availability, proposed_digest>>]_vars

\* an import without a summary, made when both sets and proposed_digest are set
C19_Witness ==
    \E t \in Threads :
        /\ pc[t] = "unlock"
        /\ Len(summaries[t]) = 1
        /\ summaries[t][1] = None
        /\ checked_validity # {}
        /\ checked_availability # {}
        /\ proposed_digest # None
        /\ proposed_digest \cap checked_validity = {}

\* C20: sign_and_import of a Candidate writes its digest to proposed_digest
\* whatever was there and before the Table is asked, and it stays written when
\* the Table answers with no summary; an earlier proposal is then treated as
\* any other digest: a summarised import about it, not yet checked and with its
\* receipt stored, schedules the block-data fetch for a validity guarantor.
C20_OverwriteState ==
    \A t \in Threads :
        (pc[t] \in {"sai_import", "unlock"} /\ local_proposed[t] # None)
            => proposed_digest = local_proposed[t]

C20_OverwriteStep ==
    \A t \in Threads :
        /\ (pc[t] = "sai_set" /\ pc'[t] = "sai_import" /\ local_proposed[t] # None)
              => (proposed_digest' = local_proposed[t] /\ table' = table)
        /\ (ImportStep(t) /\ LastSummary(t) # None) =>
              LET d == Unwrap(LastSummary(t)).candidate
                  g == Unwrap(LastSummary(t)).group_id
              IN  (/\ d \in was_proposed
                   /\ proposed_digest # Some(d)
                   /\ is_member_of(local_id, g)
                   /\ d \notin checked_validity
                   /\ Table_get_candidate(table', d) # None)
                  => BlockFetches(LastProducer(t), d) = 1

====
